---- MODULE Spec2Model ----
(***************************************************************************)
(* The simulation engine of "Technology vs. Complexity" (src/app.py, class *)
(* TechProgressGame) as a state machine.                                   *)
(*                                                                         *)
(* Numbers.  The engine computes with Python floats.  Here every real      *)
(* quantity (complexity, capacity, severity, multipliers) is a fixed-point *)
(* integer counting thousandths (Scale), and every product or quotient of  *)
(* two reals is truncated to a thousandth.  The quantities the engine      *)
(* keeps as Python ints (turn, research_points, research_points_per_turn,  *)
(* levels, costs) are plain integers, and int(x) is truncation toward 0.   *)
(***************************************************************************)
EXTENDS Integers, Sequences, FiniteSets, TLC

\* game: the TechProgressGame object; call: the last call made on it, with
\* its arguments and random draws (and, of a game_status call, whether it
\* follows another one); ret: what that call returned; budget: the calls the
\* exploration may still make; session: the session state of the page
\* (st.session_state without its game entry, which is the variable game), or
\* NoSession when the engine is called without the page
VARIABLES game, call, ret, budget, session

vars == <<game, call, ret, budget, session>>

(***************************************************************************)
(* Bounds of the model.                                                    *)
(***************************************************************************)
\* Engine calls explored from an initial state.
MaxCalls == 3
\* next_turn is explored only while the base complexity is at most this.
MaxSeed == 1000

(***************************************************************************)
(* Fixed-point arithmetic.                                                 *)
(***************************************************************************)
Scale == 1000

Abs(x) == IF x < 0 THEN -x ELSE x

Sgn(x) == IF x < 0 THEN -1 ELSE 1

Max(a, b) == IF a >= b THEN a ELSE b

\* n / d truncated toward zero (d > 0)
TruncDiv(n, d) == Sgn(n) * (Abs(n) \div d)

\* Python's int(x) of a real x
PyInt(x) == TruncDiv(x, Scale)

\* an integer as a real
Real(n) == n * Scale

\* the product x * y of two reals; split so that no intermediate exceeds 32 bits
FxMul(x, y) ==
    Sgn(x) * Sgn(y) *
        ((Abs(x) \div Scale) * Abs(y) + ((Abs(x) % Scale) * Abs(y)) \div Scale)

\* the quotient x / y of two reals (y > 0)
FxDiv(x, y) == TruncDiv(x * Scale, y)

\* a local variable: value is computed once, then Rest(value) with it
With(value, Rest(_)) == CHOOSE out \in {Rest(v) : v \in {value}} : TRUE

RECURSIVE SumOver(_, _)
SumOver(f, S) ==
    IF S = {} THEN 0
    ELSE With(CHOOSE y \in S : TRUE, LAMBDA x : f[x] + SumOver(f, S \ {x}))

(***************************************************************************)
(* The fixed tables of TechProgressGame.__init__.                          *)
(***************************************************************************)
AI == "AI & Automation"

Bio == "Biotechnology"

Energy == "Clean Energy"

InfoSys == "Information Systems"

TechNames == {AI, Bio, Energy, InfoSys}

InstNames ==
    {"Education System", "Regulatory Framework", "Scientific Community",
     "Social Safety Net"}

complexity_factor ==
    AI :> 1800 @@ Bio :> 1500 @@ Energy :> 800 @@ InfoSys :> 1300

research_bonus == 100

crisis_resistance == 100

complexity_reduction == 50

capacity_bonus == 100

capacity_factor ==
    "Education System" :> 1800 @@ "Regulatory Framework" :> 1500 @@
    "Scientific Community" :> 1700 @@ "Social Safety Net" :> 1400

cost ==
    "Education System" :> 15 @@ "Regulatory Framework" :> 18 @@
    "Scientific Community" :> 20 @@ "Social Safety Net" :> 12

complexity_growth_rate == 1080

crisis_threshold == 200

CrisisNames ==
    {"Public Backlash", "Technological Accident", "Institutional Failure",
     "Resource Shortage"}

\* Python's None as a crisis event or as a turn summary
None == [name |-> "None"]

\* the engine is used without the page: there is no session state
NoSession == [page |-> "none"]

(***************************************************************************)
(* Derived metrics.                                                        *)
(***************************************************************************)
calculate_total_social_capacity(g) ==
    LET total_capacity ==
            SumOver([i \in InstNames |-> g.institutions[i] * capacity_factor[i]],
                    InstNames)
        info_sys_bonus == g.technologies[InfoSys] * capacity_bonus
        capacity_multiplier == Scale + info_sys_bonus
    IN  FxMul(total_capacity, capacity_multiplier)

calculate_complexity_growth_modifier(g) ==
    LET energy_reduction == g.technologies[Energy] * complexity_reduction
        tech_levels_sum == SumOver(g.technologies, TechNames)
        tech_acceleration == Scale + tech_levels_sum * 10
    IN  FxMul(tech_acceleration, Scale - energy_reduction)

\* (mutant) the mean is taken over all four technologies
tech_interaction_mean_of_all(g) ==
    LET active_techs == {t \in TechNames : g.technologies[t] > 0}
        n == Cardinality(active_techs)
    IN  IF n > 1
        THEN LET interaction_level ==
                     FxDiv(Real(SumOver(g.technologies, active_techs)),
                           Real(Cardinality(TechNames)))
             IN  FxMul((n - 1) * interaction_level, 500)
        ELSE 0

tech_interaction(g) ==
    LET active_techs == {t \in TechNames : g.technologies[t] > 0}
        n == Cardinality(active_techs)
    IN  IF n > 1
        THEN LET interaction_level ==
                     FxDiv(Real(SumOver(g.technologies, active_techs)), Real(n))
             IN  FxMul((n - 1) * interaction_level, 500)
        ELSE 0

\* (mutant) the total leaves the interaction of the technologies out
complexity_breakdown_without_interaction(g) ==
    [base |-> g.complexity,
     tech_direct |->
         SumOver([t \in TechNames |-> g.technologies[t] * complexity_factor[t]],
                 TechNames),
     tech_interaction |-> tech_interaction(g),
     total |-> g.complexity
                 + SumOver([t \in TechNames |->
                               g.technologies[t] * complexity_factor[t]],
                           TechNames)]

\* the breakdown calculate_total_complexity stores in complexity_components
complexity_breakdown(g) ==
    LET base_complexity == g.complexity
        tech_complexity ==
            SumOver([t \in TechNames |-> g.technologies[t] * complexity_factor[t]],
                    TechNames)
    IN  [base |-> base_complexity,
         tech_direct |-> tech_complexity,
         tech_interaction |-> tech_interaction(g),
         total |-> base_complexity + tech_complexity + tech_interaction(g)]

\* (mutant) the total returned is the one stored by the call before
calculate_total_complexity_stale(g) ==
    [game |-> [g EXCEPT !.complexity_components = complexity_breakdown(g)],
     value |-> g.complexity_components.total]

\* calculate_total_complexity: the engine after the call, and the value returned
calculate_total_complexity(g) ==
    [game |-> [g EXCEPT !.complexity_components = complexity_breakdown(g)],
     value |-> complexity_breakdown(g).total]

(***************************************************************************)
(* Construction.                                                           *)
(***************************************************************************)
NewGame ==
    LET g0 == [turn |-> 0,
               research_points |-> 100,
               complexity |-> Real(10),
               technologies |-> [t \in TechNames |-> 0],
               institutions |-> [i \in InstNames |-> 1],
               research_points_per_turn |-> 50,
               complexity_components |-> [base |-> 0, tech_direct |-> 0,
                                          tech_interaction |-> 0, total |-> 0],
               history |-> [turns |-> <<>>, complexity |-> <<>>,
                            capacity |-> <<>>, research_points |-> <<>>,
                            crisis_events |-> <<>>]]
        c == calculate_total_complexity(g0)
    IN  [c.game EXCEPT !.history =
            [turns |-> <<0>>,
             complexity |-> <<c.value>>,
             capacity |-> <<calculate_total_social_capacity(c.game)>>,
             research_points |-> <<c.game.research_points>>,
             crisis_events |-> <<None>>]]

(***************************************************************************)
(* Operations.  Each takes the engine g and the call's arguments and gives *)
(* the engine after the call and the value returned.                       *)
(***************************************************************************)
\* (mutant) a failing call that has already charged a point
FailureAfterCharge(g, op, message) ==
    [game |-> [g EXCEPT !.research_points = g.research_points - 1],
     ret |-> [op |-> op, success |-> FALSE, message |-> message]]

\* "return False, message": the call ends before it has assigned anything
Failure(g, op, message) ==
    [game |-> g, ret |-> [op |-> op, success |-> FALSE, message |-> message]]

\* (mutant) the price grows by 1 per level instead of 2
cost_per_level_plus_one(current_level) == 10 + current_level

\* the price of one level of a technology that stands at current_level
cost_per_level(current_level) == 10 + (current_level * 2)

\* (mutant) the test refuses a single level as well
buys_one_level_at_most(levels_gained) == levels_gained <= 1

\* (mutant) the test lets a negative number of levels through
buys_exactly_no_level(levels_gained) == levels_gained = 0

\* the test that ends invest_in_technology when the amount buys no level
buys_no_level(levels_gained) == levels_gained < 1

invest_in_technology(g, tech_name, amount) ==
    IF tech_name \notin TechNames
    THEN Failure(g, "invest_in_technology",
                 [text |-> "is not a valid technology domain"])
    ELSE IF amount > g.research_points
    THEN Failure(g, "invest_in_technology",
                 [text |-> "Not enough research points"])
    ELSE
    LET current_level == g.technologies[tech_name]
        levels_gained == amount \div cost_per_level(current_level)
        actual_cost == levels_gained * cost_per_level(current_level)
    IN  IF buys_no_level(levels_gained)
        THEN Failure(g, "invest_in_technology",
                     [text |-> "Need at least points for one level",
                      points |-> cost_per_level(current_level)])
        ELSE [game |-> [g EXCEPT
                          !.technologies[tech_name] = current_level + levels_gained,
                          !.research_points = g.research_points - actual_cost],
              ret |-> [op |-> "invest_in_technology", success |-> TRUE,
                       message |-> [text |-> "Invested",
                                    points |-> actual_cost,
                                    level |-> current_level + levels_gained,
                                    gained |-> levels_gained]]]

\* (mutant) the price is taken at the level after the upgrade
upgrade_cost_of_next_level(g, inst_name) ==
    cost[inst_name] * (g.institutions[inst_name] + 1)

\* the price of the next upgrade of an institution
upgrade_cost(g, inst_name) == cost[inst_name] * g.institutions[inst_name]

invest_in_institution(g, inst_name) ==
    IF inst_name \notin InstNames
    THEN Failure(g, "invest_in_institution",
                 [text |-> "is not a valid institution"])
    ELSE IF upgrade_cost(g, inst_name) > g.research_points
    THEN Failure(g, "invest_in_institution",
                 [text |-> "Need points to upgrade",
                  points |-> upgrade_cost(g, inst_name),
                  have |-> g.research_points])
    ELSE [game |-> [g EXCEPT
                      !.institutions[inst_name] = g.institutions[inst_name] + 1,
                      !.research_points =
                          g.research_points - upgrade_cost(g, inst_name)],
          ret |-> [op |-> "invest_in_institution", success |-> TRUE,
                   message |-> [text |-> "Upgraded",
                                level |-> g.institutions[inst_name] + 1,
                                points |-> upgrade_cost(g, inst_name)]]]

\* severity reduced by Biotechnology, as trigger_crisis computes it
adjusted_severity(g, severity) ==
    LET biotech_level == g.technologies[Bio]
        resistance == biotech_level * crisis_resistance
    IN  FxMul(severity, Scale - resistance)

\* (mutant) the level after a failure is kept at 0 or above, not at 1
level_after_failure_floor_zero(level, adjusted) ==
    Max(0, level - Max(1, PyInt(level * adjusted)))

\* an institution's level after an institutional failure
level_after_failure(level, adjusted) ==
    LET level_reduction == Max(1, PyInt(level * adjusted))
    IN  Max(1, level - level_reduction)

\* (mutant) the rate is kept at 0 or above, not at 10
rate_after_backlash_floor_zero(research_points_per_turn, adjusted) ==
    Max(0, PyInt(research_points_per_turn * (Scale - TruncDiv(adjusted, 2))))

\* research_points_per_turn after a public backlash
rate_after_backlash(research_points_per_turn, adjusted) ==
    Max(10, PyInt(research_points_per_turn * (Scale - TruncDiv(adjusted, 2))))

\* (mutant) the draw of the institution goes unrecorded
failure_draws_without_institution(crisis, institution) == <<crisis>>

\* the random.choice results of a trigger_crisis call that has drawn an
\* institutional failure
failure_draws(crisis, institution) == <<crisis, institution>>

\* trigger_crisis; crisis and institution are what its two random.choice
\* calls give, and draws lists those it has made
\* (mutant) the shortage may take more than the pool holds
pool_after_shortage_unclamped(research_points, loss) == research_points - loss

\* the pool that a resource shortage leaves
pool_after_shortage(research_points, loss) == Max(0, research_points - loss)

\* (mutant) the failure always hits the first institution
failed_institution_first(institution) == "Education System"

\* the institution whose level an institutional failure writes: the one drawn
failed_institution(institution) == institution

trigger_crisis(g, severity, crisis, institution) ==
    LET adjusted == adjusted_severity(g, severity)
        event(n, v) == [name |-> crisis, severity |-> severity,
                        adjusted_severity |-> adjusted,
                        message |-> [subject |-> n, value |-> v]]
    IN  CASE crisis = "Public Backlash" ->
               LET rate == rate_after_backlash(g.research_points_per_turn,
                                               adjusted)
               IN  [game |-> [g EXCEPT !.research_points_per_turn = rate],
                    event |-> event("", rate), draws |-> <<crisis>>]
          [] crisis = "Technological Accident" ->
               LET complexity_increase == PyInt(FxMul(g.complexity, adjusted))
               IN  [game |-> [g EXCEPT !.complexity =
                                  g.complexity + Real(complexity_increase)],
                    event |-> event("", complexity_increase),
                    draws |-> <<crisis>>]
          [] crisis = "Institutional Failure" ->
               LET level == g.institutions[institution]
                   level_reduction == Max(1, PyInt(level * adjusted))
               IN  [game |-> [g EXCEPT !.institutions[failed_institution(institution)] =
                                  level_after_failure(level, adjusted)],
                    event |-> event(institution, level_reduction),
                    draws |-> failure_draws(crisis, institution)]
          [] crisis = "Resource Shortage" ->
               LET loss == PyInt(g.research_points * adjusted)
               IN  [game |-> [g EXCEPT !.research_points =
                                  pool_after_shortage(g.research_points, loss)],
                    event |-> event("", loss), draws |-> <<crisis>>]

\* (mutant) the test forgets the threshold
crisis_fires_without_threshold(current_complexity, current_capacity) ==
    current_complexity > current_capacity

\* (mutant) the test takes half the threshold
crisis_fires_at_half_threshold(current_complexity, current_capacity) ==
    current_complexity
        > FxMul(current_capacity, Scale + (crisis_threshold \div 2))

\* the test of next_turn that decides whether a crisis happens
crisis_fires(current_complexity, current_capacity) ==
    current_complexity > FxMul(current_capacity, Scale + crisis_threshold)

\* (mutant) the entry is written over the column's last one
append_over_last(column, entry) ==
    Append(SubSeq(column, 1, Len(column) - 1), entry)

\* list.append on a column of the history
append(column, entry) == Append(column, entry)

\* the rates r and multipliers m (r from 0 to 220, m = 1 + 0.1 * level for a
\* level from 0 to 40) at which the float product r * m is an integer in
\* exact arithmetic and lies just below it as a float (50 * 2.3 is
\* 114.99999999999999); beyond these ranges the product is taken as exact
ShortProducts ==
    ({45, 85, 90, 165, 170, 175, 180} \X {1400, 2800})
        \cup ({50, 90, 100, 110, 170, 180, 190, 200, 210, 220} \X {2300})
        \cup ({30, 50, 60, 90, 100, 110, 120, 170, 180, 190, 200, 210, 220}
                 \X {4100})
        \cup ({25, 45, 50, 55, 85, 90, 95, 100, 105, 110, 165, 170, 175, 180,
               185, 190, 195, 200, 205, 210, 215, 220} \X {4600})

award(research_points_per_turn, research_multiplier) ==
    PyInt(research_points_per_turn * research_multiplier)
        - (IF <<research_points_per_turn, research_multiplier>> \in ShortProducts
           THEN 1 ELSE 0)

\* (mutant) the base complexity does not grow
grown_not_at_all(complexity, growth) == complexity

\* self.complexity after "self.complexity *= growth"
grown(complexity, growth) == FxMul(complexity, growth)

\* (mutant) the balance is taken the other way round
balance_of_complexity(current_capacity, current_complexity) ==
    current_complexity - current_capacity

\* the balance of the turn summary
balance(current_capacity, current_complexity) ==
    current_capacity - current_complexity

next_turn(g, crisis, institution) ==
    With(calculate_total_complexity([g EXCEPT !.turn = g.turn + 1]), LAMBDA c :
    With(calculate_total_social_capacity(c.game), LAMBDA current_capacity :
    With(calculate_complexity_growth_modifier(c.game),
         LAMBDA complexity_growth_modifier :
    LET current_complexity == c.value
        severity == FxDiv(current_complexity - current_capacity, current_capacity)
    IN
    With(IF crisis_fires(current_complexity, current_capacity)
         THEN trigger_crisis(c.game, severity, crisis, institution)
         ELSE [game |-> c.game, event |-> None, draws |-> <<>>], LAMBDA r :
    LET g3 == r.game
        crisis_event == r.event
        ai_level == g3.technologies[AI]
        research_multiplier == Scale + (ai_level * research_bonus)
        research_points ==
            g3.research_points
                + award(g3.research_points_per_turn, research_multiplier)
        growth == FxMul(complexity_growth_rate, complexity_growth_modifier)
    IN
    [game |-> [g3 EXCEPT
                 !.research_points = research_points,
                 !.complexity = grown(g3.complexity, growth),
                 !.history =
                     [turns |-> append(g3.history.turns, g3.turn),
                      complexity |->
                          append(g3.history.complexity, current_complexity),
                      capacity |-> append(g3.history.capacity, current_capacity),
                      research_points |->
                          append(g3.history.research_points, research_points),
                      crisis_events |->
                          append(g3.history.crisis_events, crisis_event)]],
     draws |-> r.draws,
     ret |-> [op |-> "next_turn",
              turn |-> g3.turn,
              research_points |-> research_points,
              complexity |-> current_complexity,
              capacity |-> current_capacity,
              balance |-> balance(current_capacity, current_complexity),
              complexity_growth |-> growth - Scale,
              research_bonus |-> research_multiplier - Scale,
              crisis_event |-> crisis_event]]))))

\* the turn from which game_status ends the game
GameLength == 30

\* (mutant) the game ends only after turn 30
status_of_after_last_turn(turn, current_complexity, current_capacity) ==
    IF current_complexity > current_capacity * 3
    THEN "GAME OVER: Complexity catastrophically overwhelmed society's capacity"
    ELSE IF turn > 30
    THEN IF current_capacity > FxMul(current_complexity, 1100)
         THEN "VICTORY: Achieved sustainable technological progress"
         ELSE IF current_capacity > current_complexity
         THEN "PARTIAL VICTORY: Barely managing complexity"
         ELSE "GAME OVER: Failed to manage complexity in the allotted time"
    ELSE "ONGOING"

\* the classification game_status returns
status_of(turn, current_complexity, current_capacity) ==
    IF current_complexity > current_capacity * 3
    THEN "GAME OVER: Complexity catastrophically overwhelmed society's capacity"
    ELSE IF turn >= GameLength
    THEN IF current_capacity > FxMul(current_complexity, 1100)
         THEN "VICTORY: Achieved sustainable technological progress"
         ELSE IF current_capacity > current_complexity
         THEN "PARTIAL VICTORY: Barely managing complexity"
         ELSE "GAME OVER: Failed to manage complexity in the allotted time"
    ELSE "ONGOING"

game_status(g) ==
    LET c == calculate_total_complexity(g)
        current_complexity == c.value
        current_capacity == calculate_total_social_capacity(c.game)
    IN  [game |-> c.game,
         ret |-> [op |-> "game_status",
                  status |-> status_of(c.game.turn, current_complexity,
                                       current_capacity)]]

(***************************************************************************)
(* The state machine: the engine after construction, then any call.        *)
(***************************************************************************)
\* arguments tried for invest_in_technology and invest_in_institution
TechInputs == TechNames \cup {"Quantum Computing"}

InstInputs == InstNames \cup {"Free Press"}

Amounts == {-10, 0, 5, 30, 100}

Init ==
    /\ game = NewGame
    /\ call = [op |-> "__init__"]
    /\ ret = [op |-> "__init__"]
    /\ budget = MaxCalls
    /\ session = NoSession

\* a call made on the engine directly
Call(c, r) ==
    /\ budget > 0
    /\ session = NoSession
    /\ call' = c
    /\ game' = r.game
    /\ ret' = r.ret
    /\ budget' = budget - 1
    /\ UNCHANGED session

InvestInTechnology(tech_name, amount) ==
    Call([op |-> "invest_in_technology", tech_name |-> tech_name,
          amount |-> amount],
         invest_in_technology(game, tech_name, amount))

InvestInInstitution(inst_name) ==
    Call([op |-> "invest_in_institution", inst_name |-> inst_name],
         invest_in_institution(game, inst_name))

NextTurn(crisis, institution) ==
    /\ game.complexity <= Real(MaxSeed)
    /\ Call([op |-> "next_turn",
             draws |-> next_turn(game, crisis, institution).draws],
            next_turn(game, crisis, institution))

GameStatus ==
    Call([op |-> "game_status", again |-> call.op = "game_status"],
         game_status(game))

\* calculate_total_complexity called from outside the engine, as the page does
CalculateTotalComplexity ==
    Call([op |-> "calculate_total_complexity",
          again |-> call.op = "calculate_total_complexity"],
         [game |-> calculate_total_complexity(game).game,
          ret |-> [op |-> "calculate_total_complexity",
                   value |-> calculate_total_complexity(game).value]])

Next ==
    \/ \E t \in TechInputs, a \in Amounts : InvestInTechnology(t, a)
    \/ \E i \in InstInputs : InvestInInstitution(i)
    \/ \E c \in CrisisNames, i \in InstNames : NextTurn(c, i)
    \/ GameStatus
    \/ CalculateTotalComplexity

Spec == Init /\ [][Next]_vars

(***************************************************************************)
(* Late games.  A game reaches turn 30 only after thirty next_turn calls,  *)
(* so the late game is explored from engines that a fixed sequence of      *)
(* calls, played from the engine after construction, has brought to turn   *)
(* 29.                                                                     *)
(***************************************************************************)
\* the engine after one call of a script, made on g
PlayCall(g, first) ==
    CASE first.op = "invest_in_technology" ->
             invest_in_technology(g, first.tech_name, first.amount).game
      [] first.op = "invest_in_institution" ->
             invest_in_institution(g, first.inst_name).game
      [] first.op = "next_turn" ->
             next_turn(g, first.crisis, first.institution).game

RECURSIVE Play(_, _)
\* the engine after the calls of script, made in order on start (each engine
\* on the way is drawn from a one-element set, so that it is computed once)
Play(start, script) ==
    IF script = <<>> THEN start
    ELSE CHOOSE end \in {Play(PlayCall(g, Head(script)), Tail(script)) :
                             g \in {start}} : TRUE

RECURSIVE Repeat(_, _)
Repeat(script, n) == IF n = 0 THEN <<>> ELSE script \o Repeat(script, n - 1)

\* turns played before the late game is explored
LateTurn == GameLength - 1

\* next_turn with a crisis draw that, on a level-1 institution, changes nothing
QuietTurn ==
    [op |-> "next_turn", crisis |-> "Institutional Failure",
     institution |-> "Regulatory Framework"]

\* no investment at all: complexity outgrows capacity
NeglectScript == Repeat(<<QuietTurn>>, LateTurn)

\* Clean Energy bought up at once, then one upgrade: complexity settles just
\* below capacity
EnergyScript ==
    <<[op |-> "invest_in_technology", tech_name |-> Energy, amount |-> 100],
      QuietTurn,
      [op |-> "invest_in_institution", inst_name |-> "Education System"]>>
        \o Repeat(<<QuietTurn>>, LateTurn - 1)

LateGames == {Play(NewGame, NeglectScript), Play(NewGame, EnergyScript)}

InitLate ==
    /\ game \in LateGames
    /\ call = [op |-> "__init__"]
    /\ ret = [op |-> "__init__"]
    /\ budget = MaxCalls
    /\ session = NoSession

\* the engine after construction or in a late game, then any call
SpecAny == (Init \/ InitLate) /\ [][Next]_vars

\* the four institutions raised to level 5, Regulatory Framework last
BuiltUpgrades ==
    Repeat(<<[op |-> "invest_in_institution", inst_name |-> "Education System"]>>, 4)
        \o Repeat(<<[op |-> "invest_in_institution", inst_name |-> "Social Safety Net"]>>, 4)
        \o Repeat(<<[op |-> "invest_in_institution", inst_name |-> "Scientific Community"]>>, 4)
        \o Repeat(<<[op |-> "invest_in_institution", inst_name |-> "Regulatory Framework"]>>, 4)

\* Clean Energy bought up at once, AI & Automation bought up to level 13 three
\* turns later, and six turns of awards spent on the institutions: capacity
\* has caught up with complexity
BuiltScript ==
    <<[op |-> "invest_in_technology", tech_name |-> Energy, amount |-> 100]>>
        \o Repeat(<<QuietTurn>>, 3)
        \o <<[op |-> "invest_in_technology", tech_name |-> AI, amount |-> 130]>>
        \o Repeat(<<QuietTurn>>, 6)
        \o BuiltUpgrades

InitBuilt ==
    /\ game = Play(NewGame, BuiltScript)
    /\ call = [op |-> "__init__"]
    /\ ret = [op |-> "__init__"]
    /\ budget = MaxCalls
    /\ session = NoSession

\* the engine of a well-built game, then any call
SpecBuilt == InitBuilt /\ [][Next]_vars

\* highest level bought per technology before the totals are explored
MaxLevel == 3

\* each technology bought up from level 0 in one call, at 10 points a level
LevelsScript(levels) ==
    LET invest(t) == [op |-> "invest_in_technology", tech_name |-> t,
                      amount |-> 10 * levels[t]]
    IN  SelectSeq(<<invest(AI), invest(Bio), invest(Energy), invest(InfoSys)>>,
                  LAMBDA first : first.amount > 0)

\* the engines of turn 0 with every combination of levels that the first 100
\* points can buy
LevelGames ==
    {Play(NewGame, LevelsScript(levels)) :
         levels \in {l \in [TechNames -> 0 .. MaxLevel] :
                         l[AI] + l[Bio] + l[Energy] + l[InfoSys] <= 10}}

InitLevels ==
    /\ game \in LevelGames
    /\ call = [op |-> "__init__"]
    /\ ret = [op |-> "__init__"]
    /\ budget = MaxCalls
    /\ session = NoSession

\* the totals of an engine with any levels, computed as the page does
SpecLevels == InitLevels /\ [][CalculateTotalComplexity]_vars

(***************************************************************************)
(* The page (init_session_state and main).  Every click runs main once:    *)
(* the handler of the button calls the engine and writes the session       *)
(* state, then main runs again and draws the page, which computes the      *)
(* totals of the engine.  A click is one step.  The entries of the session *)
(* state that only remember what is selected or shown (show_analysis,      *)
(* tech_amount, selected_tech, selected_inst) are left out.                *)
(***************************************************************************)
\* the session state that init_session_state and the restart block write
NewSession ==
    [game_status |-> "ONGOING",
     message |-> "",
     turn_summary |-> None,
     actions_taken |-> 0,
     max_actions |-> 2,
     game_over |-> FALSE,
     restart |-> FALSE]

\* main run again: the page, or the game-over screen, computes the totals
rerun(g) == calculate_total_complexity(g).game

\* (mutant) the actions are withdrawn one action too late
quota_reached_one_late(s) == s.actions_taken > s.max_actions

\* the test that takes the two investment actions out of the action list
quota_reached(s) == s.actions_taken >= s.max_actions

\* (mutant) a game that has ended is not noticed
game_ended_never(status) == FALSE

\* the test of the End Turn handler that ends the game
game_ended(status) == status # "ONGOING"

\* the page offers its actions: the game-over screen is not shown
actions_shown(s) == ~s.game_over

\* the Restart Game button is drawn
restart_shown(s) == s.turn_summary # None \/ s.game_over

\* the Play Again button is drawn: the game-over screen is shown
play_again_shown(s) == s.game_over

\* the values of the slider from which the exploration draws: the price of
\* no level, of one level, of three and of ten levels, as far as the pool can
\* pay them, and the value the slider starts on
SliderAmounts(g, tech_name) ==
    LET price == 10 + (g.technologies[tech_name] * 2)
        max_amount == g.research_points
        max_levels == max_amount \div price
    IN  {levels * price :
             levels \in {0, 1, 3, 10} \cap (0 .. max_levels)}
            \cup {IF price < max_amount THEN price ELSE max_amount}

\* the Invest button
invest_button(g, s, tech_name, amount) ==
    With(invest_in_technology(g, tech_name, amount), LAMBDA r :
    [game |-> rerun(r.game),
     ret |-> r.ret,
     session |-> [s EXCEPT !.message = r.ret.message,
                           !.actions_taken =
                               IF r.ret.success THEN @ + 1 ELSE @]])

\* the Upgrade button
upgrade_button(g, s, selected_inst) ==
    With(invest_in_institution(g, selected_inst), LAMBDA r :
    [game |-> rerun(r.game),
     ret |-> r.ret,
     session |-> [s EXCEPT !.message = r.ret.message,
                           !.actions_taken =
                               IF r.ret.success THEN @ + 1 ELSE @]])

\* the End Turn button
end_turn_button(g, s, crisis, institution) ==
    With(next_turn(g, crisis, institution), LAMBDA t :
    With(game_status(t.game), LAMBDA status :
    [game |-> rerun(status.game),
     ret |-> t.ret,
     draws |-> t.draws,
     session |-> [s EXCEPT !.turn_summary = t.ret,
                           !.actions_taken = 0,
                           !.message = "",
                           !.game_status = status.ret.status,
                           !.game_over =
                               IF game_ended(status.ret.status)
                               THEN TRUE ELSE @]]))

\* the Restart Game button or the Play Again button, and the restart block
\* of the run that follows
restart_button(g, s) ==
    [game |-> rerun(NewGame),
     ret |-> [op |-> "restart"],
     session |-> NewSession]

\* a click on the page
Click(c, r) ==
    /\ budget > 0
    /\ session # NoSession
    /\ call' = c
    /\ game' = r.game
    /\ ret' = r.ret
    /\ session' = r.session
    /\ budget' = budget - 1

Invest(tech_name, amount) ==
    /\ session # NoSession
    /\ actions_shown(session)
    /\ ~quota_reached(session)
    /\ Click([op |-> "Invest", tech_name |-> tech_name, amount |-> amount],
             invest_button(game, session, tech_name, amount))

\* the button is disabled while the pool is short of the price
Upgrade(selected_inst) ==
    /\ session # NoSession
    /\ actions_shown(session)
    /\ ~quota_reached(session)
    /\ game.research_points >= upgrade_cost(game, selected_inst)
    /\ Click([op |-> "Upgrade", inst_name |-> selected_inst],
             upgrade_button(game, session, selected_inst))

EndTurn(crisis, institution) ==
    /\ session # NoSession
    /\ actions_shown(session)
    /\ game.complexity <= Real(MaxSeed)
    /\ Click([op |-> "End Turn",
              draws |-> end_turn_button(game, session, crisis, institution).draws],
             end_turn_button(game, session, crisis, institution))

RestartGame ==
    /\ session # NoSession
    /\ restart_shown(session)
    /\ Click([op |-> "Restart Game"], restart_button(game, session))

PlayAgain ==
    /\ session # NoSession
    /\ play_again_shown(session)
    /\ Click([op |-> "Play Again"], restart_button(game, session))

\* the clicks of a script made in order on the page p, a click that the page
\* does not offer being left out
PageClick(p, first) ==
    CASE first.op = "invest_in_technology" ->
             IF actions_shown(p.session) /\ ~quota_reached(p.session)
             THEN invest_button(p.game, p.session, first.tech_name, first.amount)
             ELSE p
      [] first.op = "invest_in_institution" ->
             IF actions_shown(p.session) /\ ~quota_reached(p.session)
             THEN upgrade_button(p.game, p.session, first.inst_name)
             ELSE p
      [] first.op = "next_turn" ->
             IF actions_shown(p.session)
             THEN end_turn_button(p.game, p.session, first.crisis,
                                  first.institution)
             ELSE p

RECURSIVE PlayPage(_, _)
PlayPage(start, script) ==
    IF script = <<>> THEN start
    ELSE CHOOSE end \in {PlayPage(PageClick(p, Head(script)), Tail(script)) :
                             p \in {start}} : TRUE

\* the page when it is opened, and the page of the Clean Energy game before
\* its last turn
Pages ==
    {[game |-> rerun(NewGame), session |-> NewSession],
     [game |-> PlayPage([game |-> rerun(NewGame), session |-> NewSession],
                        EnergyScript).game,
      session |-> PlayPage([game |-> rerun(NewGame), session |-> NewSession],
                           EnergyScript).session]}

InitPage ==
    /\ \E p \in Pages : game = p.game /\ session = p.session
    /\ call = [op |-> "__init__"]
    /\ ret = [op |-> "__init__"]
    /\ budget = MaxCalls

NextPage ==
    \/ \E t \in TechNames : \E a \in SliderAmounts(game, t) : Invest(t, a)
    \/ \E i \in InstNames : Upgrade(i)
    \/ \E c \in CrisisNames, i \in InstNames : EndTurn(c, i)
    \/ RestartGame
    \/ PlayAgain

\* the engine called directly, or driven through the page
SpecPage == (Init \/ InitPage) /\ [][Next \/ NextPage]_vars

(***************************************************************************)
(* Floats beyond the fixed-point range.  Crises can make the base          *)
(* complexity grow past any fixed-point integer, up to the end of the      *)
(* range of a Python float, where a product is inf and int() raises        *)
(* OverflowError.  For such games a float is a decimal floating-point      *)
(* number m * 10^e with FloatDigits significant digits (a record [m, e],   *)
(* m = 0 or 10^(FloatDigits-1) <= |m| < 10^FloatDigits), every operation   *)
(* rounding to that many digits;   inf, -inf and nan are the records with  *)
(* e = NotFinite and m = 1, -1 and 0.                                      *)
(***************************************************************************)
FloatDigits == 4

\* sys.float_info.max is 1.797...e308
FloatMaxExp == 308

FloatMaxDigits == 1797

\* below 10^FloatMinExp a float is 0.0
FloatMinExp == -324

NotFinite == FloatMaxExp + 1

PosInf == [m |-> 1, e |-> NotFinite]

NegInf == [m |-> -1, e |-> NotFinite]

NaN == [m |-> 0, e |-> NotFinite]

Zero == [m |-> 0, e |-> 0]

IsFinite(a) == a.e # NotFinite

RECURSIVE Pow10(_)
Pow10(n) == IF n = 0 THEN 1 ELSE 10 * Pow10(n - 1)

RECURSIVE FlRound(_, _)
\* the float m * 10^e (m any integer), brought to FloatDigits digits
FlRound(m, e) ==
    IF m = 0 THEN Zero
    ELSE IF Abs(m) >= Pow10(FloatDigits)
    THEN FlRound(TruncDiv(m + 5 * Sgn(m), 10), e + 1)
    ELSE IF Abs(m) < Pow10(FloatDigits - 1) THEN FlRound(m * 10, e - 1)
    ELSE LET top == e + FloatDigits - 1
         IN  IF top > FloatMaxExp
                  \/ (top = FloatMaxExp /\ Abs(m) > FloatMaxDigits)
             THEN IF m > 0 THEN PosInf ELSE NegInf
             ELSE IF top < FloatMinExp THEN Zero
             ELSE [m |-> m, e |-> e]

\* float(n) of an integer n, and the float of a fixed-point real
FlOfInt(n) == FlRound(n, 0)

FlOfReal(x) == FlRound(x, -3)

FlNeg(a) == [m |-> -a.m, e |-> a.e]

FlMul(a, b) ==
    IF IsFinite(a) /\ IsFinite(b) THEN FlRound(a.m * b.m, a.e + b.e)
    ELSE IF a.m = 0 \/ b.m = 0 THEN NaN
    ELSE IF Sgn(a.m) = Sgn(b.m) THEN PosInf ELSE NegInf

\* a / b for a finite b other than 0
FlDivide(a, b) ==
    IF IsFinite(a)
    THEN FlRound(TruncDiv(Abs(a.m) * Pow10(FloatDigits), Abs(b.m))
                     * Sgn(a.m) * Sgn(b.m),
                 a.e - b.e - FloatDigits)
    ELSE IF a.m = 0 THEN NaN
    ELSE IF Sgn(a.m) = Sgn(b.m) THEN PosInf ELSE NegInf

FlAdd(a, b) ==
    IF IsFinite(a) /\ IsFinite(b)
    THEN IF a.m = 0 THEN b
         ELSE IF b.m = 0 THEN a
         ELSE IF a.e >= b.e
         THEN IF a.e - b.e > FloatDigits THEN a
              ELSE FlRound(a.m * Pow10(a.e - b.e) + b.m, b.e)
         ELSE IF b.e - a.e > FloatDigits THEN b
              ELSE FlRound(b.m * Pow10(b.e - a.e) + a.m, a.e)
    ELSE IF IsFinite(a) THEN b
    ELSE IF IsFinite(b) THEN a
    ELSE IF a.m = b.m THEN a ELSE NaN

FlSub(a, b) == FlAdd(a, FlNeg(b))

\* a > b (False when either is nan)
FlGreater(a, b) ==
    IF a = NaN \/ b = NaN THEN FALSE
    ELSE IF a = b THEN FALSE
    ELSE FlSub(a, b).m > 0

\* int(a) of a finite a below 10^FloatDigits, as an integer
FlTrunc(a) ==
    IF a.e >= 0 THEN a.m * Pow10(a.e)
    ELSE IF -a.e > FloatDigits THEN 0
    ELSE TruncDiv(a.m, Pow10(-a.e))

\* int(a) of a finite a, still as a float (Python's int has no upper end)
FlInt(a) == IF a.e >= 0 THEN a ELSE FlOfInt(FlTrunc(a))

\* int(a) of a finite a as an integer when it lies in lo..hi, and else the
\* end of lo..hi that it lies beyond (hi < 10^FloatDigits)
FlIntWithin(a, lo, hi) ==
    IF FlGreater(a, FlOfInt(hi)) THEN hi
    ELSE IF FlGreater(FlOfInt(lo), a) THEN lo
    ELSE FlTrunc(a)

\* the integers a float of FloatDigits digits holds exactly
FloatIntMax == Pow10(FloatDigits) - 1

(***************************************************************************)
(* The engine on floats: the same methods, computed on an engine g whose   *)
(* base complexity (and whatever is derived from it) is a float.  Levels,  *)
(* the pool, the rate and the capacity stay as they are above.             *)
(***************************************************************************)
complexity_breakdown_float(g) ==
    LET base_complexity == g.complexity
        tech_complexity ==
            SumOver([t \in TechNames |-> g.technologies[t] * complexity_factor[t]],
                    TechNames)
        total == FlAdd(FlAdd(base_complexity, FlOfReal(tech_complexity)),
                       FlOfReal(tech_interaction(g)))
    IN  [base |-> base_complexity,
         tech_direct |-> FlOfReal(tech_complexity),
         tech_interaction |-> FlOfReal(tech_interaction(g)),
         total |-> total]

calculate_total_complexity_float(g) ==
    [game |-> [g EXCEPT !.complexity_components = complexity_breakdown_float(g)],
     value |-> complexity_breakdown_float(g).total]

\* the engine after construction
NewGameFloat ==
    LET g0 == [NewGame EXCEPT !.complexity = FlOfInt(10)]
        c == calculate_total_complexity_float(g0)
    IN  [c.game EXCEPT !.history.complexity = <<c.value>>]

\* trigger_crisis; raised tells that an int() of the call has met inf or nan
\* and raised its error, which happens before the call has assigned anything
trigger_crisis_float(g, severity, crisis, institution) ==
    LET biotech_level == g.technologies[Bio]
        adjusted ==
            FlMul(severity, FlOfReal(Scale - biotech_level * crisis_resistance))
        event(n, v) == [name |-> crisis, severity |-> severity,
                        adjusted_severity |-> adjusted,
                        message |-> [subject |-> n, value |-> v]]
        raise(draws) == [game |-> g, raised |-> TRUE, draws |-> draws]
    IN  CASE crisis = "Public Backlash" ->
               LET x == FlMul(FlOfInt(g.research_points_per_turn),
                              FlSub(FlOfInt(1), FlDivide(adjusted, FlOfInt(2))))
                   rate == FlIntWithin(x, 10, FloatIntMax)
               IN  IF ~IsFinite(x) THEN raise(<<crisis>>)
                   ELSE [game |-> [g EXCEPT !.research_points_per_turn = rate],
                         raised |-> FALSE,
                         event |-> event("", rate), draws |-> <<crisis>>]
          [] crisis = "Technological Accident" ->
               LET x == FlMul(g.complexity, adjusted)
                   complexity_increase == FlInt(x)
               IN  IF ~IsFinite(x) THEN raise(<<crisis>>)
                   ELSE [game |-> [g EXCEPT !.complexity =
                                      FlAdd(g.complexity, complexity_increase)],
                         raised |-> FALSE,
                         event |-> event("", complexity_increase),
                         draws |-> <<crisis>>]
          [] crisis = "Institutional Failure" ->
               LET level == g.institutions[institution]
                   x == FlMul(FlOfInt(level), adjusted)
                   level_reduction == FlIntWithin(x, 1, Max(1, level))
               IN  IF ~IsFinite(x) THEN raise(<<crisis, institution>>)
                   ELSE [game |-> [g EXCEPT !.institutions[failed_institution(institution)] =
                                      Max(1, level - level_reduction)],
                         raised |-> FALSE,
                         event |-> event(institution,
                                         IF FlGreater(FlOfInt(1), x)
                                         THEN FlOfInt(1) ELSE FlInt(x)),
                         draws |-> <<crisis, institution>>]
          [] crisis = "Resource Shortage" ->
               LET x == FlMul(FlOfInt(g.research_points), adjusted)
                   loss == FlIntWithin(x, -FloatIntMax, Max(0, g.research_points))
               IN  IF ~IsFinite(x) THEN raise(<<crisis>>)
                   ELSE [game |-> [g EXCEPT !.research_points =
                                      pool_after_shortage(g.research_points, loss)],
                         raised |-> FALSE,
                         event |-> event("", FlInt(x)), draws |-> <<crisis>>]

\* next_turn; a call in which trigger_crisis raises ends there, with the
\* turn counted and nothing else done
next_turn_float(g, crisis, institution) ==
    With(calculate_total_complexity_float([g EXCEPT !.turn = g.turn + 1]),
         LAMBDA c :
    With(calculate_total_social_capacity(c.game), LAMBDA current_capacity :
    With(calculate_complexity_growth_modifier(c.game),
         LAMBDA complexity_growth_modifier :
    LET current_complexity == c.value
        capacity == FlOfReal(current_capacity)
        fires == FlGreater(current_complexity,
                           FlMul(capacity, FlOfReal(Scale + crisis_threshold)))
        severity == FlDivide(FlSub(current_complexity, capacity), capacity)
    IN
    With(IF fires
         THEN trigger_crisis_float(c.game, severity, crisis, institution)
         ELSE [game |-> c.game, raised |-> FALSE, event |-> None,
               draws |-> <<>>], LAMBDA r :
    IF r.raised
    THEN [game |-> r.game, draws |-> r.draws,
          ret |-> [op |-> "next_turn", raised |-> TRUE]]
    ELSE
    LET g3 == r.game
        crisis_event == r.event
        ai_level == g3.technologies[AI]
        research_multiplier == Scale + (ai_level * research_bonus)
        research_points ==
            g3.research_points
                + award(g3.research_points_per_turn, research_multiplier)
        growth == FxMul(complexity_growth_rate, complexity_growth_modifier)
    IN
    [game |-> [g3 EXCEPT
                 !.research_points = research_points,
                 !.complexity = FlMul(g3.complexity, FlOfReal(growth)),
                 !.history =
                     [turns |-> append(g3.history.turns, g3.turn),
                      complexity |->
                          append(g3.history.complexity, current_complexity),
                      capacity |-> append(g3.history.capacity, current_capacity),
                      research_points |->
                          append(g3.history.research_points, research_points),
                      crisis_events |->
                          append(g3.history.crisis_events, crisis_event)]],
     draws |-> r.draws,
     ret |-> [op |-> "next_turn",
              raised |-> FALSE,
              turn |-> g3.turn,
              research_points |-> research_points,
              complexity |-> current_complexity,
              capacity |-> current_capacity,
              balance |-> FlSub(capacity, current_complexity),
              complexity_growth |-> growth - Scale,
              research_bonus |-> research_multiplier - Scale,
              crisis_event |-> crisis_event]]))))

status_of_float(turn, current_complexity, current_capacity) ==
    IF FlGreater(current_complexity, FlMul(current_capacity, FlOfInt(3)))
    THEN "GAME OVER: Complexity catastrophically overwhelmed society's capacity"
    ELSE IF turn >= GameLength
    THEN IF FlGreater(current_capacity, FlMul(current_complexity, FlOfReal(1100)))
         THEN "VICTORY: Achieved sustainable technological progress"
         ELSE IF FlGreater(current_capacity, current_complexity)
         THEN "PARTIAL VICTORY: Barely managing complexity"
         ELSE "GAME OVER: Failed to manage complexity in the allotted time"
    ELSE "ONGOING"

game_status_float(g) ==
    LET c == calculate_total_complexity_float(g)
        current_capacity == FlOfReal(calculate_total_social_capacity(c.game))
    IN  [game |-> c.game,
         ret |-> [op |-> "game_status",
                  status |-> status_of_float(c.game.turn, c.value,
                                             current_capacity)]]

(***************************************************************************)
(* Games without investment, on floats: next_turn and game_status calls    *)
(* on the engine after construction, on the engine that nine turns, each   *)
(* with a technological accident, have left, and on the engine that 29     *)
(* turns without effect have left.                                         *)
(***************************************************************************)
RECURSIVE PlayFloat(_, _)
\* the engine after the next_turn calls of script, made in order on start
PlayFloat(start, script) ==
    IF script = <<>> THEN start
    ELSE CHOOSE end \in
             {PlayFloat(next_turn_float(g, Head(script).crisis,
                                        Head(script).institution).game,
                        Tail(script)) : g \in {start}} : TRUE

AccidentTurn ==
    [op |-> "next_turn", crisis |-> "Technological Accident",
     institution |-> "Regulatory Framework"]

\* accidents in a row before the games on floats are explored
AccidentTurns == 9

FloatGames ==
    {NewGameFloat,
     PlayFloat(NewGameFloat, Repeat(<<AccidentTurn>>, AccidentTurns)),
     PlayFloat(NewGameFloat, NeglectScript)}

InitFloat ==
    /\ game \in FloatGames
    /\ call = [op |-> "__init__"]
    /\ ret = [op |-> "__init__"]
    /\ budget = MaxCalls
    /\ session = NoSession

NextTurnFloat(crisis, institution) ==
    Call([op |-> "next_turn",
          draws |-> next_turn_float(game, crisis, institution).draws],
         next_turn_float(game, crisis, institution))

GameStatusFloat ==
    Call([op |-> "game_status", again |-> call.op = "game_status"],
         game_status_float(game))

NextFloat ==
    \/ \E c \in CrisisNames, i \in InstNames : NextTurnFloat(c, i)
    \/ GameStatusFloat

SpecFloat == InitFloat /\ [][NextFloat]_vars

(***************************************************************************)
(* Properties.                                                             *)
(***************************************************************************)
\* the parts of the engine that the failure contract names
SameEngine(g, h) ==
    /\ g.turn = h.turn
    /\ g.research_points = h.research_points
    /\ g.complexity = h.complexity
    /\ g.research_points_per_turn = h.research_points_per_turn
    /\ g.technologies = h.technologies
    /\ g.institutions = h.institutions
    /\ g.history = h.history

\* the arguments with which invest_in_technology must fail
TechCallMustFail(g, t, a) ==
    \/ t \notin TechNames
    \/ a > g.research_points
    \/ a \div (10 + 2 * g.technologies[t]) < 1

\* the arguments with which invest_in_institution must fail
InstCallMustFail(g, i) ==
    \/ i \notin InstNames
    \/ cost[i] * g.institutions[i] > g.research_points

\* a step that is a call of op
Calls(op) == call'.op = op /\ budget' = budget - 1

\* C1: every failing call (unknown track, amount above the pool, amount that
\* buys less than one level; unknown institution, upgrade cost above the pool)
\* returns success = FALSE and leaves turn, pool, seed, rate, levels and
\* history as they were.
C1_FailingCallsChangeNothing ==
    [][/\ (Calls("invest_in_technology")
             /\ TechCallMustFail(game, call'.tech_name, call'.amount))
                => (ret'.success = FALSE /\ SameEngine(game, game'))
       /\ (Calls("invest_in_institution")
             /\ InstCallMustFail(game, call'.inst_name))
                => (ret'.success = FALSE /\ SameEngine(game, game'))
       /\ ((Calls("invest_in_technology") \/ Calls("invest_in_institution"))
             /\ ret'.success = FALSE)
                => SameEngine(game, game')]_vars

\* an upgrade has failed for lack of points after points had been spent
C1_Witness ==
    /\ call.op = "invest_in_institution"
    /\ ret.success = FALSE
    /\ ret.message.text = "Need points to upgrade"
    /\ game.research_points < 100
    /\ game.research_points > 0

\* C2: a successful invest_in_technology(track, amount) at level L and pool P
\* buys amount div (10 + 2L) >= 1 levels, all at the price 10 + 2L, raises
\* the level by that many, takes exactly levels * price from the pool, and
\* never takes more than amount (P = 100, L = 0, amount = 30: level 3, pool 70).
C2_InvestBuysWholeLevels ==
    [][(Calls("invest_in_technology") /\ ret'.success)
          => LET t == call'.tech_name
                 a == call'.amount
                 L == game.technologies[t]
                 P == game.research_points
                 price == 10 + 2 * L
                 levels == a \div price
             IN  /\ levels >= 1
                 /\ game'.technologies = [game.technologies EXCEPT ![t] = L + levels]
                 /\ game'.research_points = P - levels * price
                 /\ levels * price <= a
                 /\ (P = 100 /\ L = 0 /\ a = 30)
                        => (game'.technologies[t] = 3
                              /\ game'.research_points = 70)]_vars

\* an investment of 30 at level 3 has bought one level for 16
C2_Witness ==
    /\ call.op = "invest_in_technology"
    /\ call.amount = 30
    /\ ret.success
    /\ ret.message.gained = 1
    /\ ret.message.points = 16

\* C3: invest_in_institution on a known institution at level L with base
\* cost c succeeds exactly when c * L <= pool; it then raises that level to
\* L + 1, takes c * L from the pool, makes the next upgrade cost c * (L + 1),
\* and changes no other institution, no technology, not the turn, not the
\* history.
C3_UpgradeCostsBaseTimesLevel ==
    [][(Calls("invest_in_institution") /\ call'.inst_name \in InstNames)
          => LET i == call'.inst_name
                 L == game.institutions[i]
                 P == game.research_points
             IN  /\ ret'.success <=> (cost[i] * L <= P)
                 /\ ret'.success =>
                      /\ game'.institutions =
                             [game.institutions EXCEPT ![i] = L + 1]
                      /\ game'.research_points = P - cost[i] * L
                      /\ upgrade_cost(game', i) = cost[i] * (L + 1)
                      /\ game'.technologies = game.technologies
                      /\ game'.turn = game.turn
                      /\ game'.history = game.history
                 /\ (i = "Education System" /\ L = 1 /\ ret'.success)
                        => (P - game'.research_points = 15
                              /\ upgrade_cost(game', i) = 30)]_vars

\* an institution has been upgraded twice
C3_Witness ==
    /\ call.op = "invest_in_institution"
    /\ ret.success
    /\ ret.message.level = 3

\* C4: next_turn fires a crisis exactly when the total complexity on entry is
\* strictly above 1.2 times the total capacity on entry; the call appends one
\* crisis entry to the history, the one it returns, and that entry is an
\* event exactly when the crisis fired.
C4_CrisisIffAboveThreshold ==
    [][Calls("next_turn")
          => LET C == complexity_breakdown(game).total
                 K == calculate_total_social_capacity(game)
                 fired == 10 * C > 12 * K
             IN  /\ (ret'.crisis_event # None) <=> fired
                 /\ fired => ret'.crisis_event.name = call'.draws[1]
                 /\ game'.history.crisis_events =
                        Append(game.history.crisis_events,
                               ret'.crisis_event)]_vars

\* a turn has passed without crisis, complexity being above capacity
C4_Witness ==
    /\ call.op = "next_turn"
    /\ ret.crisis_event = None
    /\ ret.complexity > ret.capacity

\* the crisis events the history holds
PastCrises ==
    {game.history.crisis_events[k] : k \in 1..Len(game.history.crisis_events)}
        \ {None}

\* C5: of every crisis that has fired, whatever the level of Biotechnology,
\* the adjusted severity is between 0 and the severity.
C5_AdjustedSeverityWithinSeverity ==
    \A e \in PastCrises :
        0 <= e.adjusted_severity /\ e.adjusted_severity <= e.severity

\* C6: every institution's level is an integer >= 1.
C6_InstitutionLevelAtLeastOne ==
    \A i \in InstNames : game.institutions[i] \in Nat \ {0}

\* an institutional failure of two levels or more has brought an upgraded
\* institution down to level 1
C6_Witness ==
    /\ call.op = "next_turn"
    /\ ret.crisis_event.name = "Institutional Failure"
    /\ ret.crisis_event.message.value >= 2
    /\ game.institutions[ret.crisis_event.message.subject] = 1
    /\ calculate_total_social_capacity(game) < ret.capacity

\* C7: no step lowers a technology level, and a level changes only by a
\* successful invest_in_technology on that track.
C7_TechnologyLevelsNeverDecrease ==
    [][\A t \in TechNames :
          /\ game'.technologies[t] >= game.technologies[t]
          /\ game'.technologies[t] # game.technologies[t]
                => /\ Calls("invest_in_technology")
                   /\ call'.tech_name = t
                   /\ ret'.success]_vars

\* a negative amount has been offered for a track that has levels to lose
C7_Witness ==
    /\ call.op = "invest_in_technology"
    /\ call.amount < 0
    /\ call.tech_name \in TechNames
    /\ game.technologies[call.tech_name] > 0

\* the classification of turn, total complexity C and total capacity K
Classify(turn, C, K) ==
    IF C > 3 * K
    THEN "GAME OVER: Complexity catastrophically overwhelmed society's capacity"
    ELSE IF turn >= 30
    THEN IF 10 * K > 11 * C
         THEN "VICTORY: Achieved sustainable technological progress"
         ELSE IF K > C
         THEN "PARTIAL VICTORY: Barely managing complexity"
         ELSE "GAME OVER: Failed to manage complexity in the allotted time"
    ELSE "ONGOING"

\* C8: game_status returns the overwhelm defeat when C > 3K, whatever the
\* turn; else, from turn 30 on, victory when K > 1.1 C, partial victory when
\* K > C, defeat otherwise; else ONGOING.
C8_GameStatusClassifies ==
    [][Calls("game_status")
          => ret'.status =
                 Classify(game.turn, complexity_breakdown(game).total,
                          calculate_total_social_capacity(game))]_vars

\* game_status has returned the partial victory
C8_Witness ==
    /\ call.op = "game_status"
    /\ ret.status = "PARTIAL VICTORY: Barely managing complexity"
    /\ game.turn >= 30

\* C9: a game_status call leaves every part of the engine as it was,
\* complexity_components included.
C9_GameStatusChangesNothing ==
    [][Calls("game_status") => game' = game]_vars

\* C10: game_status called twice in a row returns the same status twice.
C10_GameStatusTwiceAgrees ==
    [][(Calls("game_status") /\ call'.again) => ret'.status = ret.status]_vars

\* game_status has been asked twice in a row after the investment that
\* overwhelmed the fresh game
C10_Witness ==
    /\ call.op = "game_status"
    /\ call.again
    /\ game.turn = 0
    /\ budget = 0
    /\ ret.status # "ONGOING"

\* C11: in a game without investment every next_turn call, whatever its
\* draws, returns its summary with the turn advanced by one, so that thirty
\* calls bring the turn to 30; and game_status does not return ONGOING when
\* the turn is 30 or more.
C11_ThirtyTurnsEndTheGame ==
    [][/\ Calls("next_turn")
            => (ret'.raised = FALSE /\ ret'.turn = game.turn + 1)
       /\ (Calls("game_status") /\ game.turn >= GameLength)
            => ret'.status # "ONGOING"]_vars

HistoryColumns ==
    {"turns", "complexity", "capacity", "research_points", "crisis_events"}

\* C12: every next_turn call raises the turn by 1 and appends one entry to
\* each history column, and an invest_in_technology or invest_in_institution
\* call changes neither the turn nor the history; so that in every state each
\* of the five columns has turn + 1 entries and the turns recorded are
\* 0, 1, 2, ... in order.
C12_HistoryOneEntryPerTurn ==
    /\ [](/\ \A col \in HistoryColumns :
               Len(game.history[col]) = game.turn + 1
          /\ \A k \in 1..Len(game.history.turns) :
               game.history.turns[k] = k - 1)
    /\ [][/\ Calls("next_turn")
               => /\ game'.turn = game.turn + 1
                  /\ \A col \in HistoryColumns :
                       Len(game'.history[col]) = Len(game.history[col]) + 1
          /\ (Calls("invest_in_technology") \/ Calls("invest_in_institution"))
               => /\ game'.turn = game.turn
                  /\ game'.history = game.history]_vars

\* s is the beginning of t
IsPrefix(s, t) == Len(s) <= Len(t) /\ SubSeq(t, 1, Len(s)) = s

\* C13: the history is append-only: whatever the call (invest_in_technology,
\* invest_in_institution, next_turn with or without crisis, game_status),
\* every column of the history before the call is the beginning of that
\* column after it.
C13_HistoryAppendOnly ==
    [][\A col \in HistoryColumns :
          IsPrefix(game.history[col], game'.history[col])]_vars

\* a turn with a crisis has been recorded, and two more calls made since
C13_Witness ==
    /\ call.op = "game_status"
    /\ budget = 0
    /\ Len(game.history.turns) >= 2
    /\ game.history.crisis_events[2] # None
    /\ game.research_points # game.history.research_points[2]

Last(column) == column[Len(column)]

\* C14: the complexity and the capacity that a next_turn call returns and
\* appends to the history are the totals of the engine on entry, before the
\* crisis, the research award and the growth of that call; an accident or an
\* institutional failure of the call does not show in them; and the balance
\* returned is that capacity minus that complexity.
C14_TurnRecordsTotalsOnEntry ==
    [][Calls("next_turn")
          => LET C == complexity_breakdown(game).total
                 K == calculate_total_social_capacity(game)
             IN  /\ ret'.complexity = C
                 /\ ret'.capacity = K
                 /\ Last(game'.history.complexity) = C
                 /\ Last(game'.history.capacity) = K
                 /\ ret'.balance = K - C]_vars

\* a turn has brought an accident, which the complexity recorded does not hold
C14_Witness ==
    /\ call.op = "next_turn"
    /\ ret.crisis_event.name = "Technological Accident"
    /\ ret.crisis_event.message.value > 0
    /\ ret.balance < 0
    /\ game.complexity_components.base + Real(ret.crisis_event.message.value)
           < game.complexity

\* C15: invest_in_technology on a known track at level L, with an amount
\* that is not above the pool, fails exactly when amount < 10 + 2L (0 and
\* negative amounts included), and the failure then reports 10 + 2L as the
\* points needed (amount 5 at level 0: 10).
C15_InvestFailsBelowOneLevel ==
    [][(/\ Calls("invest_in_technology")
        /\ call'.tech_name \in TechNames
        /\ call'.amount <= game.research_points)
          => LET L == game.technologies[call'.tech_name]
             IN  /\ (ret'.success = FALSE) <=> (call'.amount < 10 + 2 * L)
                 /\ (ret'.success = FALSE)
                      => /\ ret'.message.text = "Need at least points for one level"
                         /\ ret'.message.points = 10 + 2 * L
                 /\ (call'.amount = 5 /\ L = 0) => ret'.message.points = 10]_vars

\* an amount of 30 has been refused on a track that stands above level 10
C15_Witness ==
    /\ call.op = "invest_in_technology"
    /\ call.amount = 30
    /\ ret.success = FALSE
    /\ ret.message.text = "Need at least points for one level"
    /\ ret.message.points > 30

C17_BaseComplexityGrowsEveryTurn ==
    [][Calls("next_turn") => game'.complexity > game.complexity]_vars

\* C18: calculate_total_complexity returns the total it stores, the stored
\* breakdown has total = base + tech_direct + tech_interaction with base the
\* current base complexity, and a second call right after the first returns
\* the same value and stores the same breakdown.
C18_TotalComplexityRepeatable ==
    [][Calls("calculate_total_complexity")
          => LET stored == game'.complexity_components
             IN  /\ ret'.value = stored.total
                 /\ stored.total
                        = stored.base + stored.tech_direct + stored.tech_interaction
                 /\ stored.base = game'.complexity
                 /\ game'.complexity = game.complexity
                 /\ call'.again
                      => /\ ret'.value = ret.value
                         /\ stored = game.complexity_components]_vars

\* the total has been computed twice in a row on an engine with two
\* technologies that interact
C18_Witness ==
    /\ call.op = "calculate_total_complexity"
    /\ call.again
    /\ game.complexity_components.tech_interaction > 0
    /\ ret.value > game.complexity + game.complexity_components.tech_direct

\* C19: research_points_per_turn is at least 10 in every state, whatever
\* crises have happened, public backlashes of any severity included.
C19_ResearchRateAtLeastTen ==
    game.research_points_per_turn >= 10

\* a public backlash of a severity above 2, which alone would have made the
\* rate negative, has left it at 10
C19_Witness ==
    /\ call.op = "next_turn"
    /\ ret.crisis_event.name = "Public Backlash"
    /\ ret.crisis_event.adjusted_severity > Real(2)
    /\ game.research_points_per_turn = 10

\* C20: crises only hurt: research_points_per_turn is never above its
\* initial 50 and no public backlash raises it, no technological accident
\* takes from the base complexity, and no resource shortage adds to the pool.
C20_CrisesOnlyHurt ==
    /\ [](game.research_points_per_turn <= 50)
    /\ [][(Calls("next_turn") /\ ret'.crisis_event # None)
             => LET crisis == ret'.crisis_event.name
                    value == ret'.crisis_event.message.value
                IN  /\ crisis = "Public Backlash"
                         => value <= game.research_points_per_turn
                    /\ crisis = "Technological Accident" => value >= 0
                    /\ crisis = "Resource Shortage" => value >= 0]_vars

\* C21: next_turn resolves the crisis before it awards research points and
\* before it grows the base complexity: after a public backlash the points
\* awarded in the call are those of the reduced rate; after a resource
\* shortage the pool ends at max(0, pool - loss) plus the award; after a
\* technological accident the base complexity ends at (base + increase)
\* times 1.08 * growth modifier.
C21_CrisisBeforeAwardAndGrowth ==
    [][(Calls("next_turn") /\ ret'.crisis_event # None)
          => LET crisis == ret'.crisis_event.name
                 value == ret'.crisis_event.message.value
                 multiplier == Scale + game.technologies[AI] * research_bonus
                 growth == FxMul(complexity_growth_rate,
                                 calculate_complexity_growth_modifier(game))
             IN  /\ crisis = "Public Backlash"
                      => /\ game'.research_points_per_turn = value
                         /\ game'.research_points
                                = game.research_points + award(value, multiplier)
                 /\ crisis = "Resource Shortage"
                      => game'.research_points
                             = Max(0, game.research_points - value)
                                 + award(game.research_points_per_turn,
                                         multiplier)
                 /\ crisis = "Technological Accident"
                      => game'.complexity
                             = FxMul(game.complexity + Real(value), growth)]_vars

\* a public backlash has cut the rate of an engine whose AI & Automation
\* multiplies the award
C21_Witness ==
    /\ call.op = "next_turn"
    /\ ret.crisis_event.name = "Public Backlash"
    /\ game.research_points_per_turn < 50
    /\ game.technologies[AI] > 0
    /\ ret.research_bonus > 0

\* C22: on a next_turn call in which no crisis fires, the pool increases by
\* exactly floor(research rate * (1 + 0.1 * level of AI & Automation)), and
\* the research rate and all institution levels are unchanged.
C22_QuietTurnAwardsFloor ==
    [][(Calls("next_turn") /\ ret'.crisis_event = None)
          => /\ game'.research_points
                    = game.research_points
                        + (game.research_points_per_turn
                             * (10 + game.technologies[AI])) \div 10
             /\ game'.research_points_per_turn = game.research_points_per_turn
             /\ game'.institutions = game.institutions]_vars

\* C23: each crisis changes only its own target: a public backlash only the
\* research rate, a technological accident only the base complexity, an
\* institutional failure the level of the drawn institution at most, a
\* resource shortage only the pool; the pool, the base complexity, the rate
\* and the institution levels that are not the target end the turn as a turn
\* without crisis would leave them, and no crisis changes a technology level,
\* the turn (raised by 1 by next_turn itself) or an existing history entry.
C23_CrisisChangesOnlyItsTarget ==
    [][(Calls("next_turn") /\ ret'.crisis_event # None)
          => LET crisis == ret'.crisis_event.name
                 drawn == ret'.crisis_event.message.subject
                 multiplier == Scale + game.technologies[AI] * research_bonus
                 growth == FxMul(complexity_growth_rate,
                                 calculate_complexity_growth_modifier(game))
                 rate_kept ==
                     game'.research_points_per_turn
                         = game.research_points_per_turn
                 pool_kept ==
                     game'.research_points
                         = game.research_points
                             + award(game'.research_points_per_turn, multiplier)
                 seed_kept == game'.complexity = FxMul(game.complexity, growth)
                 levels_kept(others) ==
                     \A i \in others :
                         game'.institutions[i] = game.institutions[i]
             IN  /\ crisis = "Public Backlash"
                      => pool_kept /\ seed_kept /\ levels_kept(InstNames)
                 /\ crisis = "Technological Accident"
                      => rate_kept /\ pool_kept /\ levels_kept(InstNames)
                 /\ crisis = "Institutional Failure"
                      => /\ rate_kept /\ pool_kept /\ seed_kept
                         /\ levels_kept(InstNames \ {drawn})
                 /\ crisis = "Resource Shortage"
                      => rate_kept /\ seed_kept /\ levels_kept(InstNames)
                 /\ game'.technologies = game.technologies
                 /\ game'.turn = game.turn + 1
                 /\ \A column \in HistoryColumns :
                        IsPrefix(game.history[column],
                                 game'.history[column])]_vars

\* an institutional failure has been drawn on one institution while another
\* one stands above level 1, and the turn before it had a crisis too
C23_Witness ==
    /\ call.op = "next_turn"
    /\ ret.crisis_event.name = "Institutional Failure"
    /\ ret.crisis_event.message.subject = "Social Safety Net"
    /\ game.institutions["Education System"] > 1
    /\ game.turn >= 2

\* C24: the pool is never negative, whatever the calls, the amounts (zero and
\* negative ones included) and the crisis draws, and no invest_in_technology
\* or invest_in_institution call increases the pool.
C24_PoolNeverNegative ==
    /\ [](game.research_points >= 0)
    /\ [][(Calls("invest_in_technology") \/ Calls("invest_in_institution"))
             => game'.research_points <= game.research_points]_vars

\* a resource shortage has taken more than the pool held, and after it a call
\* with a negative amount has been refused
C24_Witness ==
    LET turns == Len(game.history.turns)
        crisis_event == Last(game.history.crisis_events)
    IN  /\ call.op = "invest_in_technology"
        /\ call.amount < 0
        /\ ~ret.success
        /\ turns >= 2
        /\ crisis_event.name = "Resource Shortage"
        /\ crisis_event.message.value > game.history.research_points[turns - 1]
        /\ game.research_points >= 0

\* C25: the total capacity is strictly positive in every reachable state, so
\* that the division of next_turn never divides by zero; and whenever a
\* crisis fires, its raw severity (complexity - capacity) / capacity, taken
\* on the totals that the call returns, is strictly greater than the crisis
\* threshold 0.2 (the severity recorded in the event is that quotient).
C25_CapacityPositiveSeverityAboveThreshold ==
    /\ [](calculate_total_social_capacity(game) > 0)
    /\ [][(Calls("next_turn") /\ ret'.crisis_event # None)
             => /\ ret'.capacity > 0
                /\ (ret'.complexity - ret'.capacity) * Scale
                       > crisis_threshold * ret'.capacity
                /\ ret'.crisis_event.severity
                       = FxDiv(ret'.complexity - ret'.capacity, ret'.capacity)
                /\ ret'.crisis_event.severity >= crisis_threshold]_vars

\* a crisis has fired with a raw severity between 0.2 and 0.3
C25_Witness ==
    /\ call.op = "next_turn"
    /\ ret.crisis_event # None
    /\ ret.crisis_event.severity < 300
    /\ calculate_total_social_capacity(game) > 0

\* C26: the interaction term of the total complexity is 0 when fewer than two
\* technologies have a level above 0; otherwise it is (n - 1) * (sum of the
\* levels of the active technologies / n) * 0.5, n being the number of active
\* technologies, for every combination of levels (the term is computed in
\* thousandths, rounded down at each step: it lies less than 0.003 below the
\* exact value).
C26_InteractionTerm ==
    [][Calls("calculate_total_complexity")
          => LET level == game.technologies
                 n == Cardinality({t \in TechNames : level[t] > 0})
                 sum == level[AI] + level[Bio] + level[Energy] + level[InfoSys]
                 term == game'.complexity_components.tech_interaction
             IN  /\ game'.technologies = level
                 /\ n < 2 => term = 0
                 /\ n >= 2 => /\ 2 * n * term <= (n - 1) * sum * Scale
                              /\ (n - 1) * sum * Scale < 2 * n * (term + 3)
                 /\ ret'.value = game'.complexity_components.total
                 /\ ret'.value
                        = game'.complexity_components.base
                            + game'.complexity_components.tech_direct + term]_vars

\* the total has been computed with three active technologies whose mean
\* level is not a whole number
C26_Witness ==
    /\ call.op = "calculate_total_complexity"
    /\ game.technologies[AI] = 3
    /\ game.technologies[Bio] = 0
    /\ game.technologies[Energy] = 2
    /\ game.technologies[InfoSys] = 2
    /\ game.complexity_components.tech_interaction = 2333

\* a step that is a click on the page
Clicks(op) == session # NoSession /\ call'.op = op /\ budget' = budget - 1

\* C27: the page enforces the action quota and the engine does not.  On the
\* page max_actions is 2 and actions_taken never exceeds it; actions_taken
\* grows only by 1, and only with an Invest or an Upgrade whose engine call
\* succeeded; a failed Invest leaves it; End Turn resets it to 0: at most two
\* successful investments lie between two next_turn calls.  The engine called
\* directly keeps no count: an investment succeeds whenever its own
\* conditions (known name, price within the pool, one level at least) hold,
\* however many calls came since the last next_turn.
C27_PageEnforcesQuota ==
    /\ [](session # NoSession
             => /\ session.max_actions = 2
                /\ session.actions_taken \in 0 .. session.max_actions)
    /\ [][session # NoSession
             => /\ session'.actions_taken > session.actions_taken
                     => /\ Clicks("Invest") \/ Clicks("Upgrade")
                        /\ ret'.success
                        /\ session'.actions_taken = session.actions_taken + 1
                /\ (Clicks("Invest") \/ Clicks("Upgrade"))
                     => /\ session.actions_taken < session.max_actions
                        /\ session'.actions_taken
                               = session.actions_taken
                                   + (IF ret'.success THEN 1 ELSE 0)
                /\ Clicks("End Turn")
                     => /\ session'.actions_taken = 0
                        /\ game'.turn = game.turn + 1]_vars
    /\ [][session = NoSession
             => /\ Calls("invest_in_technology")
                     => (ret'.success
                            <=> ~TechCallMustFail(game, call'.tech_name,
                                                  call'.amount))
                /\ Calls("invest_in_institution")
                     => (ret'.success
                            <=> ~InstCallMustFail(game, call'.inst_name))]_vars

\* after a turn has been ended, two investments have succeeded on the page and
\* used the quota up
C27_Witness ==
    /\ session # NoSession
    /\ call.op = "Invest"
    /\ ret.success
    /\ session.actions_taken = 2
    /\ session.turn_summary # None
    /\ quota_reached(session)

\* C28: on the page game_over is set exactly when the game_status() that
\* follows the next_turn of an End Turn click is not "ONGOING", and by
\* nothing else; once it is set the page issues no investment and no
\* next_turn on that engine: the only clicks left are Restart Game and Play
\* Again, and each of them leaves a new engine (turn 0, pool 100, base
\* complexity 10, rate 50, technologies at level 0, institutions at level 1,
\* a history of the single entry of turn 0) and a new session (actions_taken
\* 0, game_over false).
C28_GameOverUntilRestart ==
    /\ [][Clicks("End Turn")
             => LET status == game_status(game').ret.status
                IN  /\ ~session.game_over
                    /\ session'.game_status = status
                    /\ session'.game_over <=> status # "ONGOING"]_vars
    /\ [][(session # NoSession /\ session'.game_over # session.game_over)
             => \/ Clicks("End Turn") /\ session'.game_over
                \/ Clicks("Restart Game") /\ ~session'.game_over
                \/ Clicks("Play Again") /\ ~session'.game_over]_vars
    /\ [][(session # NoSession /\ session.game_over /\ budget' # budget)
             => Clicks("Restart Game") \/ Clicks("Play Again")]_vars
    /\ [][(Clicks("Restart Game") \/ Clicks("Play Again"))
             => /\ game'.turn = 0
                /\ game'.research_points = 100
                /\ game'.complexity = Real(10)
                /\ game'.research_points_per_turn = 50
                /\ \A t \in TechNames : game'.technologies[t] = 0
                /\ \A i \in InstNames : game'.institutions[i] = 1
                /\ \A column \in HistoryColumns :
                       Len(game'.history[column]) = 1
                /\ game'.history.turns = <<0>>
                /\ game'.history.crisis_events = <<None>>
                /\ session'.actions_taken = 0
                /\ ~session'.game_over
                /\ session'.turn_summary = None]_vars

\* the game-over screen has been left by Play Again: the engine is new
C28_Witness ==
    /\ session # NoSession
    /\ call.op = "Play Again"
    /\ ~session.game_over
    /\ game.turn = 0
    /\ game.research_points = 100

====
